---- MODULE Spec2Model ----
(***************************************************************************)
(* A model of yaml-resume: src/src/resume.py (the pydantic schema) and     *)
(* src/src/main.py (the formatting helpers, the entry generator, the       *)
(* section generators, the document assembler and the entry point).        *)
(*                                                                         *)
(* Python strings are TLA+ strings (Len, SubSeq and \o act on them).       *)
(* Optional[T] is None or Some(v).  A parsed YAML node is a tagged record. *)
(* A pylatex object is a record [kind, args, data]: args are its strings,  *)
(* data the objects it contains, in order.                                 *)
(***************************************************************************)
EXTENDS Naturals, Sequences, FiniteSets, TLC

VARIABLES
    pc,        \* how far main() got: start, parsed, validated, assembled, opened, written
    file,      \* the input file: [exists, parses, contents]
    writable,  \* whether out.tex can be opened for writing
    contents,  \* what yaml.load returned
    resume,    \* what Resume.model_validate returned
    doc,       \* what generate_doc returned
    out,       \* out.tex: untouched, opened (truncated) or written
    error,     \* the uncaught exception that ended the run, or "none"
    call,      \* the arguments of a helper called on its own
    ret        \* what the helper returned

vars == <<pc, file, writable, contents, resume, doc, out, error, call, ret>>

(***************************************************************************)
(* Bounds of the model.                                                    *)
(***************************************************************************)
MaxEntries == 2      \* longest certificates / awards list
MaxOther == 1        \* longest education / work / projects / skills list
MaxHighlights == 2   \* longest highlights list given to an entry generator
MaxYears == 2        \* number of years after FirstYear dates are drawn from

FirstYear == 2019

(***************************************************************************)
(* Optional values and Python's str operations.                            *)
(***************************************************************************)
None == [some |-> FALSE]
Some(x) == [some |-> TRUE, v |-> x]
Unset == [unset |-> TRUE]

Present(opt) == opt # None

LenOf(opt) == IF opt = None THEN 0 ELSE Len(opt.v)

Range(s) == {s[i] : i \in 1..Len(s)}

CharAt(s, i) == SubSeq(s, i, i)

UPPER == "ABCDEFGHIJKLMNOPQRSTUVWXYZ"
LOWER == "abcdefghijklmnopqrstuvwxyz"
DIGITS == "0123456789"

IsSpace(c) == c \in {" ", "\t", "\n", "\r"}

\* str.lower() on one character
lower_char(c) ==
    IF \E i \in 1..26 : CharAt(UPPER, i) = c
    THEN CharAt(LOWER, CHOOSE i \in 1..26 : CharAt(UPPER, i) = c)
    ELSE c

RECURSIVE str_lower(_)
str_lower(s) ==
    IF Len(s) = 0 THEN ""
    ELSE lower_char(CharAt(s, 1)) \o str_lower(SubSeq(s, 2, Len(s)))

RECURSIVE str_lstrip(_)
str_lstrip(s) ==
    IF Len(s) > 0 /\ IsSpace(CharAt(s, 1))
    THEN str_lstrip(SubSeq(s, 2, Len(s)))
    ELSE s

RECURSIVE str_rstrip(_)
str_rstrip(s) ==
    IF Len(s) > 0 /\ IsSpace(CharAt(s, Len(s)))
    THEN str_rstrip(SubSeq(s, 1, Len(s) - 1))
    ELSE s

str_strip(s) == str_rstrip(str_lstrip(s))

\* sep.join(parts)
RECURSIVE str_join(_, _)
str_join(sep, parts) ==
    IF Len(parts) = 0 THEN ""
    ELSE IF Len(parts) = 1 THEN parts[1]
    ELSE parts[1] \o sep \o str_join(sep, Tail(parts))

\* s.split(): the maximal runs of non-whitespace characters, in order
RECURSIVE str_split_from(_, _, _)
str_split_from(s, i, word) ==
    IF i > Len(s)
    THEN IF word = "" THEN <<>> ELSE <<word>>
    ELSE IF IsSpace(CharAt(s, i))
         THEN (IF word = "" THEN <<>> ELSE <<word>>) \o str_split_from(s, i + 1, "")
         ELSE str_split_from(s, i + 1, word \o CharAt(s, i))

str_split(s) == str_split_from(s, 1, "")

\* str(x) of an Optional[str], as an f-string renders it
str_of(opt) == IF opt = None THEN "None" ELSE opt.v

\* needle in haystack
Contains(haystack, needle) ==
    \E i \in 1..(Len(haystack) + 1) :
        /\ i + Len(needle) - 1 <= Len(haystack)
        /\ SubSeq(haystack, i, i + Len(needle) - 1) = needle

(***************************************************************************)
(* Parsed YAML nodes: what yaml.load hands to Resume.model_validate.       *)
(* A mapping is a record over the keys of its model class; a key that the  *)
(* file does not give is Missing.                                          *)
(***************************************************************************)
Missing == [tag |-> "missing"]
Null == [tag |-> "null"]
Str(s) == [tag |-> "str", s |-> s]
Int(n) == [tag |-> "int", n |-> n]
Date(y, m, d) == [tag |-> "date", d |-> [year |-> y, month |-> m, day |-> d]]
List(items) == [tag |-> "list", items |-> items]
Map(fields) == [tag |-> "map", fields |-> fields]

(***************************************************************************)
(* pydantic (v2: main.py calls Resume.model_validate).  A validator takes  *)
(* a node and its field path and returns [errs, v]: the paths of the       *)
(* fields in error (the ValidationError is raised iff there is one) and    *)
(* the typed value.                                                        *)
(***************************************************************************)
Ok(x) == [errs |-> {}, v |-> x]
Err(path) == [errs |-> {path}, v |-> None]

IsDigit(c) == \E i \in 1..10 : CharAt(DIGITS, i) = c
DigitVal(c) == (CHOOSE i \in 1..10 : CharAt(DIGITS, i) = c) - 1

RECURSIVE ParseNat(_)
ParseNat(s) ==
    IF Len(s) = 0 THEN 0
    ELSE 10 * ParseNat(SubSeq(s, 1, Len(s) - 1)) + DigitVal(CharAt(s, Len(s)))

AllDigits(s) == \A i \in 1..Len(s) : IsDigit(CharAt(s, i))

DaysIn(y, m) ==
    IF m \in {4, 6, 9, 11} THEN 30
    ELSE IF m = 2 THEN (IF y % 4 = 0 /\ (y % 100 # 0 \/ y % 400 = 0) THEN 29 ELSE 28)
    ELSE 31

\* a str given for a date field: "YYYY-MM-DD" naming a day of the calendar
IsIsoDate(s) ==
    /\ Len(s) = 10
    /\ CharAt(s, 5) = "-" /\ CharAt(s, 8) = "-"
    /\ AllDigits(SubSeq(s, 1, 4)) /\ AllDigits(SubSeq(s, 6, 7)) /\ AllDigits(SubSeq(s, 9, 10))
    /\ ParseNat(SubSeq(s, 1, 4)) >= 1
    /\ ParseNat(SubSeq(s, 6, 7)) \in 1..12
    /\ ParseNat(SubSeq(s, 9, 10)) \in 1..DaysIn(ParseNat(SubSeq(s, 1, 4)), ParseNat(SubSeq(s, 6, 7)))

RECURSIVE Validate(_, _, _)

v_str(raw, path) == IF raw.tag = "str" THEN Ok(raw.s) ELSE Err(path)

v_date(raw, path) ==
    IF raw.tag = "date" THEN Ok(raw.d)
    ELSE IF raw.tag = "str" /\ IsIsoDate(raw.s)
         THEN Ok([year |-> ParseNat(SubSeq(raw.s, 1, 4)),
                  month |-> ParseNat(SubSeq(raw.s, 6, 7)),
                  day |-> ParseNat(SubSeq(raw.s, 9, 10))])
         ELSE Err(path)

\* List[T]
v_list(raw, T, path) ==
    IF raw.tag # "list" THEN Err(path)
    ELSE LET rs == [i \in 1..Len(raw.items) |-> Validate(T, raw.items[i], path \o "." \o ToString(i - 1))]
         IN  [errs |-> UNION {rs[i].errs : i \in 1..Len(raw.items)},
              v |-> [i \in 1..Len(raw.items) |-> rs[i].v]]


AsSome(r) == [errs |-> r.errs, v |-> Some(r.v)]

\* `f: T`: the key must be given and hold a T
Required(raw, T, path) ==
    IF raw.tag = "missing" THEN Err(path) ELSE Validate(T, raw, path)

\* `f: Optional[T] = None`: an omitted key, or null, is None
OptionalDefault(raw, T, path) ==
    IF raw.tag \in {"missing", "null"} THEN Ok(None) ELSE AsSome(Validate(T, raw, path))

\* `f: Optional[T]` without a default: the key must be given; null is None
OptionalNoDefault(raw, T, path) ==
    IF raw.tag = "missing" THEN Err(path)
    ELSE IF raw.tag = "null" THEN Ok(None)
    ELSE AsSome(Validate(T, raw, path))

validate_Location(raw, path) ==
    IF raw.tag # "map" THEN Err(path)
    ELSE LET m == raw.fields
             address == OptionalDefault(m.address, "str", path \o ".address")
             postal_code == OptionalDefault(m.postal_code, "str", path \o ".postal_code")
             city == Required(m.city, "str", path \o ".city")
             country_code == Required(m.country_code, "str", path \o ".country_code")
             region == Required(m.region, "str", path \o ".region")
         IN  [errs |-> address.errs \cup postal_code.errs \cup city.errs
                        \cup country_code.errs \cup region.errs,
              v |-> [address |-> address.v, postal_code |-> postal_code.v, city |-> city.v,
                     country_code |-> country_code.v, region |-> region.v]]

validate_Profile(raw, path) ==
    IF raw.tag # "map" THEN Err(path)
    ELSE LET m == raw.fields
             network == Required(m.network, "str", path \o ".network")
             username == Required(m.username, "str", path \o ".username")
             url == Required(m.url, "str", path \o ".url")
         IN  [errs |-> network.errs \cup username.errs \cup url.errs,
              v |-> [network |-> network.v, username |-> username.v, url |-> url.v]]


validate_Basics(raw, path) ==
    IF raw.tag # "map" THEN Err(path)
    ELSE LET m == raw.fields
             name == Required(m.name, "str", path \o ".name")
             label == OptionalNoDefault(m.label, "str", path \o ".label")
             email == Required(m.email, "str", path \o ".email")
             phone == Required(m.phone, "str", path \o ".phone")
             url == OptionalNoDefault(m.url, "str", path \o ".url")
             summary == OptionalNoDefault(m.summary, "str", path \o ".summary")
             location == OptionalNoDefault(m.location, "Location", path \o ".location")
             profiles == OptionalNoDefault(m.profiles, "List[Profile]", path \o ".profiles")
         IN  [errs |-> name.errs \cup label.errs \cup email.errs \cup phone.errs \cup url.errs
                        \cup summary.errs \cup location.errs \cup profiles.errs,
              v |-> [name |-> name.v, label |-> label.v, email |-> email.v, phone |-> phone.v,
                     url |-> url.v, summary |-> summary.v, location |-> location.v,
                     profiles |-> profiles.v]]

validate_Work(raw, path) ==
    IF raw.tag # "map" THEN Err(path)
    ELSE LET m == raw.fields
             name == Required(m.name, "str", path \o ".name")
             position == Required(m.position, "str", path \o ".position")
             url == OptionalDefault(m.url, "str", path \o ".url")
             start_date == Required(m.start_date, "date", path \o ".start_date")
             end_date == OptionalDefault(m.end_date, "date", path \o ".end_date")
             summary == OptionalDefault(m.summary, "str", path \o ".summary")
             highlights == Required(m.highlights, "List[str]", path \o ".highlights")
             location == OptionalDefault(m.location, "Location", path \o ".location")
         IN  [errs |-> name.errs \cup position.errs \cup url.errs \cup start_date.errs
                        \cup end_date.errs \cup summary.errs \cup highlights.errs
                        \cup location.errs,
              v |-> [name |-> name.v, position |-> position.v, url |-> url.v,
                     start_date |-> start_date.v, end_date |-> end_date.v,
                     summary |-> summary.v, highlights |-> highlights.v,
                     location |-> location.v]]

validate_Education(raw, path) ==
    IF raw.tag # "map" THEN Err(path)
    ELSE LET m == raw.fields
             institution == Required(m.institution, "str", path \o ".institution")
             url == OptionalDefault(m.url, "str", path \o ".url")
             area == Required(m.area, "str", path \o ".area")
             sub_area == OptionalDefault(m.sub_area, "str", path \o ".sub_area")
             study_type == Required(m.study_type, "str", path \o ".study_type")
             start_date == Required(m.start_date, "date", path \o ".start_date")
             end_date == OptionalDefault(m.end_date, "date", path \o ".end_date")
             score == OptionalDefault(m.score, "str", path \o ".score")
             courses == Required(m.courses, "List[str]", path \o ".courses")
             location == OptionalDefault(m.location, "Location", path \o ".location")
         IN  [errs |-> institution.errs \cup url.errs \cup area.errs \cup sub_area.errs
                        \cup study_type.errs \cup start_date.errs \cup end_date.errs
                        \cup score.errs \cup courses.errs \cup location.errs,
              v |-> [institution |-> institution.v, url |-> url.v, area |-> area.v,
                     sub_area |-> sub_area.v, study_type |-> study_type.v,
                     start_date |-> start_date.v, end_date |-> end_date.v,
                     score |-> score.v, courses |-> courses.v, location |-> location.v]]

validate_Certificate(raw, path) ==
    IF raw.tag # "map" THEN Err(path)
    ELSE LET m == raw.fields
             name == Required(m.name, "str", path \o ".name")
             date == Required(m.date, "date", path \o ".date")
             issuer == Required(m.issuer, "str", path \o ".issuer")
             summary == Required(m.summary, "str", path \o ".summary")
             url == OptionalDefault(m.url, "str", path \o ".url")
         IN  [errs |-> name.errs \cup date.errs \cup issuer.errs \cup summary.errs \cup url.errs,
              v |-> [class |-> "Certificate", name |-> name.v, date |-> date.v,
                     issuer |-> issuer.v, summary |-> summary.v, url |-> url.v]]

validate_Award(raw, path) ==
    IF raw.tag # "map" THEN Err(path)
    ELSE LET m == raw.fields
             name == Required(m.name, "str", path \o ".name")
             date == Required(m.date, "date", path \o ".date")
             awarder == Required(m.awarder, "str", path \o ".awarder")
             summary == Required(m.summary, "str", path \o ".summary")
             url == OptionalDefault(m.url, "str", path \o ".url")
         IN  [errs |-> name.errs \cup date.errs \cup awarder.errs \cup summary.errs \cup url.errs,
              v |-> [class |-> "Award", name |-> name.v, date |-> date.v,
                     awarder |-> awarder.v, summary |-> summary.v, url |-> url.v]]

validate_Skill(raw, path) ==
    IF raw.tag # "map" THEN Err(path)
    ELSE LET m == raw.fields
             name == Required(m.name, "str", path \o ".name")
             level == OptionalDefault(m.level, "str", path \o ".level")
             keywords == Required(m.keywords, "List[str]", path \o ".keywords")
         IN  [errs |-> name.errs \cup level.errs \cup keywords.errs,
              v |-> [name |-> name.v, level |-> level.v, keywords |-> keywords.v]]

validate_Language(raw, path) ==
    IF raw.tag # "map" THEN Err(path)
    ELSE LET m == raw.fields
             language == Required(m.language, "str", path \o ".language")
             fluency == Required(m.fluency, "str", path \o ".fluency")
         IN  [errs |-> language.errs \cup fluency.errs,
              v |-> [language |-> language.v, fluency |-> fluency.v]]

validate_Interest(raw, path) ==
    IF raw.tag # "map" THEN Err(path)
    ELSE LET m == raw.fields
             name == Required(m.name, "str", path \o ".name")
             keywords == Required(m.keywords, "List[str]", path \o ".keywords")
         IN  [errs |-> name.errs \cup keywords.errs,
              v |-> [name |-> name.v, keywords |-> keywords.v]]

validate_Project(raw, path) ==
    IF raw.tag # "map" THEN Err(path)
    ELSE LET m == raw.fields
             name == Required(m.name, "str", path \o ".name")
             start_date == Required(m.start_date, "date", path \o ".start_date")
             end_date == OptionalDefault(m.end_date, "date", path \o ".end_date")
             summary == OptionalDefault(m.summary, "str", path \o ".summary")
             highlights == OptionalDefault(m.highlights, "List[str]", path \o ".highlights")
             url_text == OptionalDefault(m.url_text, "str", path \o ".url_text")
             url == OptionalDefault(m.url, "str", path \o ".url")
         IN  [errs |-> name.errs \cup start_date.errs \cup end_date.errs \cup summary.errs
                        \cup highlights.errs \cup url_text.errs \cup url.errs,
              v |-> [name |-> name.v, start_date |-> start_date.v, end_date |-> end_date.v,
                     summary |-> summary.v, highlights |-> highlights.v,
                     url_text |-> url_text.v, url |-> url.v]]


\* the validator of a field's annotated type
Validate(T, raw, path) ==
    CASE T = "str" -> v_str(raw, path)
      [] T = "date" -> v_date(raw, path)
      [] T = "Location" -> validate_Location(raw, path)
      [] T = "Profile" -> validate_Profile(raw, path)
      [] T = "Basics" -> validate_Basics(raw, path)
      [] T = "Work" -> validate_Work(raw, path)
      [] T = "Education" -> validate_Education(raw, path)
      [] T = "Certificate" -> validate_Certificate(raw, path)
      [] T = "Award" -> validate_Award(raw, path)
      [] T = "Skill" -> validate_Skill(raw, path)
      [] T = "Language" -> validate_Language(raw, path)
      [] T = "Interest" -> validate_Interest(raw, path)
      [] T = "Project" -> validate_Project(raw, path)
      [] T = "List[str]" -> v_list(raw, "str", path)
      [] T = "List[Profile]" -> v_list(raw, "Profile", path)
      [] T = "List[Work]" -> v_list(raw, "Work", path)
      [] T = "List[Education]" -> v_list(raw, "Education", path)
      [] T = "List[Certificate]" -> v_list(raw, "Certificate", path)
      [] T = "List[Award]" -> v_list(raw, "Award", path)
      [] T = "List[Skill]" -> v_list(raw, "Skill", path)
      [] T = "List[Language]" -> v_list(raw, "Language", path)
      [] T = "List[Interest]" -> v_list(raw, "Interest", path)
      [] T = "List[Project]" -> v_list(raw, "Project", path)

\* Resume.model_validate(contents)
validate_Resume(raw) ==
    IF raw.tag # "map" THEN Err("")
    ELSE LET m == raw.fields
             basics == Required(m.basics, "Basics", "basics")
             work == OptionalDefault(m.work, "List[Work]", "work")
             education == OptionalDefault(m.education, "List[Education]", "education")
             certificates == OptionalDefault(m.certificates, "List[Certificate]", "certificates")
             awards == OptionalDefault(m.awards, "List[Award]", "awards")
             skills == OptionalDefault(m.skills, "List[Skill]", "skills")
             languages == OptionalDefault(m.languages, "List[Language]", "languages")
             interests == OptionalDefault(m.interests, "List[Interest]", "interests")
             projects == OptionalDefault(m.projects, "List[Project]", "projects")
         IN  [errs |-> basics.errs \cup work.errs \cup education.errs \cup certificates.errs
                        \cup awards.errs \cup skills.errs \cup languages.errs
                        \cup interests.errs \cup projects.errs,
              v |-> [basics |-> basics.v, work |-> work.v, education |-> education.v,
                     certificates |-> certificates.v, awards |-> awards.v,
                     skills |-> skills.v, languages |-> languages.v,
                     interests |-> interests.v, projects |-> projects.v]]

(***************************************************************************)
(* pylatex objects, as main.py builds them.                                *)
(***************************************************************************)
Obj(kind, args, data) == [kind |-> kind, args |-> args, opts |-> <<>>, data |-> data]
Command(name, arguments, options) ==
    [kind |-> "Command", args |-> <<name>> \o arguments, opts |-> options, data |-> <<>>]
Text(s) == Obj("str", <<s>>, <<>>)
NoEscape(s) == Obj("NoEscape", <<s>>, <<>>)
bold(s) == Obj("bold", <<s>>, <<>>)
italic(s) == Obj("italic", <<s>>, <<>>)
HorizontalSpace(size) == Obj("HorizontalSpace", <<size>>, <<>>)
VerticalSpace(size) == Obj("VerticalSpace", <<size>>, <<>>)
NewLine == Obj("NewLine", <<>>, <<>>)

RECURSIVE Braced(_)
Braced(arguments) ==
    IF Len(arguments) = 0 THEN ""
    ELSE "{" \o arguments[1] \o "}" \o Braced(Tail(arguments))

\* Command.dumps()
dumps(cmd) ==
    "\\" \o cmd.args[1]
         \o (IF Len(cmd.opts) = 0 THEN "" ELSE "[" \o str_join(",", cmd.opts) \o "]")
         \o Braced(Tail(cmd.args))

\* what a call returns, or the exception it raises
Returned(x) == [raised |-> FALSE, v |-> x]
Raised(exc) == [raised |-> TRUE, exc |-> exc]

(***************************************************************************)
(* main.py: constants and formatting helpers.                              *)
(***************************************************************************)
DETAIL_INDENT == "0.25in"

RESOURCE_KEYS == {"github", "linkedin", "phone", "mail", "home", "web"}

RESOURCE_MAP ==
    [k \in RESOURCE_KEYS |->
        CASE k = "github" -> "resources/github.png"
          [] k = "linkedin" -> "resources/in.png"
          [] k = "phone" -> "resources/phone.png"
          [] k = "mail" -> "resources/mail.png"
          [] k = "home" -> "resources/home.png"
          [] k = "web" -> "resources/web.png"]

Link(text, ref) == [text |-> text, ref |-> ref]

format_location(location) ==
    IF location = None THEN Raised("RuntimeError")
    ELSE Returned(location.v.city \o ", " \o location.v.region)

\* (the option's backquote, before \B, is no character of a TLA+ string)
generate_image_inline(resource_path) ==
    Command("includegraphics", <<resource_path>>, <<"height=\\fontcharht\\font\\B">>)

\* resource_name_of, were the network matched as it is written
resource_name_case_sensitive(network) ==
    IF str_strip(network) \in RESOURCE_KEYS THEN str_strip(network) ELSE "web"

\* the key format_profile looks up in RESOURCE_MAP
resource_name_of(network) ==
    IF str_lower(str_strip(network)) \in RESOURCE_KEYS
    THEN str_lower(str_strip(network))
    ELSE "web"

format_profile(profile) ==
    IF profile = None THEN Raised("RuntimeError")
    ELSE LET link_text == profile.v.network \o "/" \o profile.v.username
             resource_name == resource_name_of(profile.v.network)
         IN  IF resource_name \notin DOMAIN RESOURCE_MAP THEN Raised("KeyError")
             ELSE Returned(Command("href",
                     <<profile.v.url,
                       dumps(generate_image_inline(RESOURCE_MAP[resource_name]))
                           \o " " \o link_text>>, <<>>))

Pad(n, width) ==
    LET digits == ToString(n)
    IN  IF Len(digits) >= width THEN digits
        ELSE SubSeq("0000", 1, width - Len(digits)) \o digits

\* format_me.strftime("%m/%Y"): the month in two digits, the year in decimal
\* (four digits for the years from 1000 on, which are the ones drawn here)
format_date(format_me) == Pad(format_me.month, 2) \o "/" \o ToString(format_me.year)

\* format_time_range, were is_instant not looked at
format_time_range_no_instant(start, end, is_instant) ==
    IF end = None THEN format_date(start) \o " - present"
    ELSE format_date(start) \o " - " \o format_date(end.v)

format_time_range(start, end, is_instant) ==
    IF is_instant THEN format_date(start)
    ELSE IF end = None THEN format_date(start) \o " - present"
    ELSE format_date(start) \o " - " \o format_date(end.v)

(***************************************************************************)
(* EntryGenerator.                                                         *)
(***************************************************************************)
EntryGenerator(title, start_date) ==
    [title |-> title, context |-> None, location |-> None, start_date |-> start_date,
     end_date |-> None, link |-> None, summary |-> None, highlights |-> None,
     is_instant |-> FALSE]

\* the detail block of generate: the AdjustWidth environment
entry_details(self) ==
    IF self.summary # None \/ self.highlights # None
    THEN <<[kind |-> "AdjustWidth", args |-> <<DETAIL_INDENT, "0in">>, opts |-> <<>>,
            data |-> (IF self.summary # None THEN <<Text(self.summary.v)>> ELSE <<>>)
                     \o (IF self.highlights # None
                         THEN <<Obj("Itemize", <<>>,
                                    [i \in 1..Len(self.highlights.v) |->
                                        Obj("item", <<self.highlights.v[i]>>, <<>>)])>>
                         ELSE <<>>)]>>
    ELSE <<>>

\* EntryGenerator_generate, were the link appended after the fill
generate_link_after_fill(self) ==
    <<bold(self.title)>>
    \o (IF self.context # None THEN <<Text(", "), italic(self.context.v)>> ELSE <<>>)
    \o <<Command("hfill", <<>>, <<>>)>>
    \o (IF self.link # None
        THEN <<HorizontalSpace("6pt"),
               Obj("TextColor", <<"blue">>,
                   <<Command("href", <<self.link.v.ref, self.link.v.text>>, <<>>)>>)>>
        ELSE <<>>)
    \o (IF self.location # None
        THEN <<bold(format_location(self.location).v), HorizontalSpace("6pt")>>
        ELSE <<>>)
    \o <<italic(format_time_range(self.start_date, self.end_date, self.is_instant))>>
    \o entry_details(self)

\* EntryGenerator.generate(doc): the objects it appends to doc, in order
EntryGenerator_generate(self) ==
    <<bold(self.title)>>
    \o (IF self.context # None THEN <<Text(", "), italic(self.context.v)>> ELSE <<>>)
    \o (IF self.link # None
        THEN <<HorizontalSpace("6pt"),
               Obj("TextColor", <<"blue">>,
                   <<Command("href", <<self.link.v.ref, self.link.v.text>>, <<>>)>>)>>
        ELSE <<>>)
    \o <<Command("hfill", <<>>, <<>>)>>
    \o (IF self.location # None
        THEN <<bold(format_location(self.location).v), HorizontalSpace("6pt")>>
        ELSE <<>>)
    \o <<italic(format_time_range(self.start_date, self.end_date, self.is_instant))>>
    \o entry_details(self)

(***************************************************************************)
(* Header and section generators.  `with doc.create(X):` makes doc.append  *)
(* fill X until the block ends, then appends X to doc: each generator is   *)
(* the sequence of objects it leaves in doc.                               *)
(***************************************************************************)
RECURSIVE Flatten(_)
Flatten(seqs) == IF Len(seqs) = 0 THEN <<>> ELSE Head(seqs) \o Flatten(Tail(seqs))

generate_contact_info(resume_) ==
    LET location == format_location(resume_.basics.location)
    IN  IF location.raised THEN location
        ELSE Returned(<<Obj("Tabular", <<"c | c | c">>,
                 <<Obj("row", <<>>,
                     <<NoEscape(dumps(generate_image_inline(RESOURCE_MAP["phone"]))
                                \o " " \o resume_.basics.phone),
                       NoEscape(dumps(generate_image_inline(RESOURCE_MAP["mail"]))
                                \o " "
                                \o dumps(Command("href",
                                       <<"mailto:" \o resume_.basics.email,
                                         resume_.basics.email>>, <<>>))),
                       NoEscape(dumps(generate_image_inline(RESOURCE_MAP["home"]))
                                \o " " \o location.v)>>)>>)>>)

generate_profiles(resume_) ==
    IF resume_.basics.profiles # None
    THEN LET profiles == resume_.basics.profiles.v
             profile_count == Len(profiles)
             cells == [i \in 1..profile_count |-> format_profile(Some(profiles[i]))]
         IN  IF \E i \in 1..profile_count : cells[i].raised
             THEN cells[CHOOSE i \in 1..profile_count :
                            cells[i].raised /\ \A j \in 1..(i - 1) : ~cells[j].raised]
             ELSE Returned(<<Obj("Tabular",
                               <<str_join(" | ", [i \in 1..profile_count |-> "c"])>>,
                               <<Obj("row", <<>>,
                                     [i \in 1..profile_count |-> cells[i].v])>>)>>)
    ELSE Returned(<<>>)

generate_header(resume_) ==
    LET contact == generate_contact_info(resume_)
        profiles == generate_profiles(resume_)
    IN  IF contact.raised THEN contact
        ELSE IF profiles.raised THEN profiles
        ELSE Returned(<<Command("makecvtitle", <<>>, <<>>),
                        Obj("Center", <<>>,
                            <<Obj("HugeText", <<>>,
                                  <<Command("textbf", <<resume_.basics.name>>, <<>>)>>),
                              Command("break", <<>>, <<>>)>>
                            \o contact.v
                            \o <<Command("break", <<>>, <<>>)>>
                            \o profiles.v)>>)

generate_section_title(section_name) ==
    <<VerticalSpace(".1in"),
      Obj("LargeText", <<>>, <<Command("textbf", <<section_name>>, <<>>)>>),
      VerticalSpace(".05in"),
      Command("hrule", <<>>, <<>>),
      VerticalSpace("0.05in")>>

education_entry(education) ==
    [EntryGenerator(education.study_type, education.start_date) EXCEPT
        !.context = Some(education.institution),
        !.location = education.location,
        !.end_date = education.end_date,
        !.summary = Some(str_join("\n",
            <<"Area of study: " \o education.area,
              "Concentration: " \o str_of(education.sub_area),
              "Final result: " \o str_of(education.score),
              "Relevant coursework: " \o str_join(", ", education.courses)>>))]

generate_education(education_list) ==
    <<Obj("Section", <<"Education">>,
          generate_section_title("Education")
          \o Flatten([i \in 1..Len(education_list) |->
                         EntryGenerator_generate(education_entry(education_list[i]))]))>>

experience_entry(work) ==
    [EntryGenerator(work.position, work.start_date) EXCEPT
        !.context = Some(work.name),
        !.location = work.location,
        !.end_date = work.end_date,
        !.highlights = Some(work.highlights)]

generate_experience(work_list) ==
    <<Obj("Section", <<"Experience">>,
          generate_section_title("Experience")
          \o Flatten([i \in 1..Len(work_list) |->
                         EntryGenerator_generate(experience_entry(work_list[i]))]))>>

project_entry(project) ==
    [EntryGenerator(project.name, project.start_date) EXCEPT
        !.end_date = project.end_date,
        !.summary = project.summary,
        !.link = IF project.url # None
                 THEN Some(Link(IF project.url_text = None THEN "(link)"
                                ELSE project.url_text.v,
                                project.url.v))
                 ELSE None]

generate_projects(projects) ==
    <<Obj("Section", <<"Projects">>,
          generate_section_title("Projects")
          \o Flatten([i \in 1..Len(projects) |->
                         EntryGenerator_generate(project_entry(projects[i]))]))>>

\* the title generate_certifications_and_awards gives its section
section_title_of(certifications, awards) ==
    IF certifications = None THEN "Certifications"
    ELSE IF awards = None THEN "Awards"
    ELSE "Certifications & Awards"

\* to_process_of, were the awards taken first
to_process_awards_first(certifications, awards) ==
    (IF awards # None THEN awards.v ELSE <<>>)
    \o (IF certifications # None THEN certifications.v ELSE <<>>)

\* the items generate_certifications_and_awards renders, in order
to_process_of(certifications, awards) ==
    (IF certifications # None THEN certifications.v ELSE <<>>)
    \o (IF awards # None THEN awards.v ELSE <<>>)

certification_or_award_entry(item) ==
    IF item.class = "Certificate"
    THEN [EntryGenerator(item.name, item.date) EXCEPT
             !.is_instant = TRUE, !.summary = Some(item.summary)]
    ELSE [EntryGenerator(item.name, item.date) EXCEPT
             !.is_instant = TRUE, !.summary = Some(item.summary)]

generate_certifications_and_awards(certifications, awards) ==
    LET to_process == to_process_of(certifications, awards)
    IN  <<Obj("Section", <<"Certifications & Awards">>,
              generate_section_title(section_title_of(certifications, awards))
              \o Flatten([i \in 1..Len(to_process) |->
                     EntryGenerator_generate(certification_or_award_entry(to_process[i]))]))>>

generate_skills(skills) ==
    <<Obj("Section", <<"Skills">>,
          generate_section_title("Skills")
          \o Flatten([i \in 1..Len(skills) |->
                         <<italic(skills[i].name),
                           Text(": "),
                           Text(str_join(", ", skills[i].keywords)),
                           NewLine>>]))>>

\* generate_body, were each section gated on its list holding an item
generate_body_skip_empty(resume_) ==
    (IF LenOf(resume_.education) > 0 THEN generate_education(resume_.education.v) ELSE <<>>)
    \o (IF LenOf(resume_.work) > 0 THEN generate_experience(resume_.work.v) ELSE <<>>)
    \o (IF LenOf(resume_.projects) > 0 THEN generate_projects(resume_.projects.v) ELSE <<>>)
    \o (IF LenOf(resume_.certificates) > 0 \/ LenOf(resume_.awards) > 0
        THEN generate_certifications_and_awards(resume_.certificates, resume_.awards)
        ELSE <<>>)
    \o (IF LenOf(resume_.skills) > 0 THEN generate_skills(resume_.skills.v) ELSE <<>>)

generate_body(resume_) ==
    (IF resume_.education # None THEN generate_education(resume_.education.v) ELSE <<>>)
    \o (IF resume_.work # None THEN generate_experience(resume_.work.v) ELSE <<>>)
    \o (IF resume_.projects # None THEN generate_projects(resume_.projects.v) ELSE <<>>)
    \o (IF resume_.certificates # None \/ resume_.awards # None
        THEN generate_certifications_and_awards(resume_.certificates, resume_.awards)
        ELSE <<>>)
    \o (IF resume_.skills # None THEN generate_skills(resume_.skills.v) ELSE <<>>)

generate_doc(resume_) ==
    LET name_command == Command("name", str_split(resume_.basics.name), <<>>)
        custom_preamble == <<Command("moderncvstyle", <<"empty">>, <<>>),
                             Command("moderncvcolor", <<"black">>, <<>>),
                             name_command>>
        header == generate_header(resume_)
    IN  IF header.raised THEN header
        ELSE Returned([kind |-> "Document",
                       args |-> <<"moderncv">>,
                       opts |-> <<"10pt", "letterpaper">>,
                       geometry |-> [lmargin |-> "0.5in", rmargin |-> "0.5in",
                                     tmargin |-> "0.5in", bmargin |-> "0.5in"],
                       preamble |-> custom_preamble,
                       data |-> header.v \o generate_body(resume_)])

(***************************************************************************)
(* Input files.                                                            *)
(***************************************************************************)
Given(mode, value) ==
    IF mode = "missing" THEN Missing ELSE IF mode = "null" THEN Null ELSE Str(value)

LocationNode ==
    Map([address |-> Missing, postal_code |-> Null, city |-> Str("Laramie"),
         country_code |-> Str("US"), region |-> Str("WY")])

LocationNoCity ==
    Map([address |-> Missing, postal_code |-> Null, city |-> Missing,
         country_code |-> Str("US"), region |-> Str("WY")])

SampleNetworks == <<"GitHub", "mastodon", " LinkedIn ">>

ProfileNode(i) ==
    Map([network |-> Str(SampleNetworks[((i - 1) % 3) + 1]),
         username |-> Str("jdoe" \o ToString(i)),
         url |-> Str("https://example.org/u" \o ToString(i))])

DateNode(i, k) == Date(FirstYear + ((i + k) % (MaxYears + 1)), ((i * k) % 12) + 1, 1)

WorkNode(i) ==
    Map([name |-> Str("Acme" \o ToString(i)), position |-> Str("Engineer" \o ToString(i)),
         url |-> Missing, start_date |-> DateNode(i, 1),
         end_date |-> IF i % 2 = 1 THEN Missing ELSE DateNode(i, 2),
         summary |-> Missing, highlights |-> List(<<Str("Shipped X"), Str("Fixed Y")>>),
         location |-> IF i % 2 = 1 THEN LocationNode ELSE Missing])

EducationNode(i) ==
    Map([institution |-> Str("UW" \o ToString(i)), url |-> Missing,
         area |-> Str("Physics" \o ToString(i)), sub_area |-> Missing,
         study_type |-> Str("BSc" \o ToString(i)), start_date |-> DateNode(i, 3),
         end_date |-> DateNode(i, 4), score |-> Str("3.9"),
         courses |-> List(<<Str("Optics"), Str("Logic")>>), location |-> Null])

ProjectNode(i) ==
    Map([name |-> Str("Tool" \o ToString(i)), start_date |-> DateNode(i, 5),
         end_date |-> Missing, summary |-> Str("A tool"), highlights |-> Missing,
         url_text |-> Missing, url |-> Str("https://example.org/p" \o ToString(i))])

\* the dates of the samples are in no order, within a list or across the two
CertificateNode(i) ==
    Map([name |-> Str("Cert" \o ToString(i)),
         date |-> Date(FirstYear + ((5 - i) % 3), ((i * 5) % 12) + 1, 1),
         issuer |-> Str("Issuer" \o ToString(i)), summary |-> Str("Passed " \o ToString(i)),
         url |-> Missing])

AwardNode(i) ==
    Map([name |-> Str("Prize" \o ToString(i)),
         date |-> Date(FirstYear + ((i + 1) % 3), ((i * 7) % 12) + 1, 1),
         awarder |-> Str("Jury" \o ToString(i)), summary |-> Str("Won " \o ToString(i)),
         url |-> Missing])

SkillNode(i) ==
    Map([name |-> Str("Skill" \o ToString(i)), level |-> Missing,
         keywords |-> List(<<Str("TLA+"), Str("Python")>>)])

Nodes(n, kind) ==
    List([i \in 1..n |->
            CASE kind = "Work" -> WorkNode(i)
              [] kind = "Education" -> EducationNode(i)
              [] kind = "Project" -> ProjectNode(i)
              [] kind = "Certificate" -> CertificateNode(i)
              [] kind = "Award" -> AwardNode(i)
              [] kind = "Skill" -> SkillNode(i)
              [] kind = "Profile" -> ProfileNode(i)])

\* a list key: omitted, or a list of 0..max items
ListNodes(max, kind) == {Missing} \cup {Nodes(n, kind) : n \in 0..max}

GoodBasics ==
    Map([name |-> Str("Jane Doe"), label |-> Null, email |-> Str("jane@example.org"),
         phone |-> Str("555-0100"), url |-> Null, summary |-> Null,
         location |-> LocationNode, profiles |-> Nodes(2, "Profile")])

\* basics mappings: required keys given, omitted or ill-typed; optional keys given,
\* null or omitted
BasicsNodes ==
    {Map([name |-> n, label |-> Given(o, "Engineer"), email |-> Str("jane@example.org"),
          phone |-> ph, url |-> Given(o, "https://example.org"),
          summary |-> Given(o, "Builds things"), location |-> l, profiles |-> pr]) :
        n \in {Str("Jane Doe"), Missing},
        ph \in {Str("555-0100"), Int(5550100)},
        o \in {"missing", "null", "str"},
        l \in {Missing, Null, LocationNode, LocationNoCity},
        pr \in {Missing, Null, Nodes(0, "Profile"), Nodes(2, "Profile")}}

NoSections ==
    [work |-> Missing, education |-> Missing, certificates |-> Missing, awards |-> Missing,
     skills |-> Missing, languages |-> Missing, interests |-> Missing, projects |-> Missing]

\* the rest of the file, for the files whose basics vary
SectionChoices ==
    {NoSections,
     [NoSections EXCEPT !.work = Nodes(1, "Work"), !.certificates = Nodes(1, "Certificate")],
     [NoSections EXCEPT !.projects =
         List(<<Map([ProjectNode(1).fields EXCEPT !.start_date = Str("2020-02-29")])>>)],
     [NoSections EXCEPT !.projects =
         List(<<Map([ProjectNode(1).fields EXCEPT !.start_date = Str("2020-13-01")])>>)],
     [NoSections EXCEPT !.work =
         List(<<Map([WorkNode(1).fields EXCEPT !.highlights = Missing])>>)]}

WithBasics(sections, basics) ==
    Map([basics |-> basics, work |-> sections.work, education |-> sections.education,
         certificates |-> sections.certificates, awards |-> sections.awards,
         skills |-> sections.skills, languages |-> sections.languages,
         interests |-> sections.interests, projects |-> sections.projects])

\* files whose basics vary, and files whose lists vary
InputContents ==
    {WithBasics(s, b) : s \in SectionChoices, b \in BasicsNodes}
    \cup
    {WithBasics([NoSections EXCEPT !.education = e, !.work = w, !.projects = p,
                                   !.certificates = c, !.awards = a, !.skills = k],
                GoodBasics) :
        e \in ListNodes(MaxOther, "Education"), w \in ListNodes(MaxOther, "Work"),
        p \in ListNodes(MaxOther, "Project"), c \in ListNodes(MaxEntries, "Certificate"),
        a \in ListNodes(MaxEntries, "Award"), k \in ListNodes(MaxOther, "Skill")}

InputFiles ==
    {[exists |-> FALSE, parses |-> FALSE, contents |-> Null],
     [exists |-> TRUE, parses |-> FALSE, contents |-> Null]}
    \cup {[exists |-> TRUE, parses |-> TRUE, contents |-> c] : c \in InputContents}

(***************************************************************************)
(* main(): parse, validate, assemble, write.  An exception is not caught:  *)
(* it ends the run where it was raised.                                    *)
(***************************************************************************)
Untouched == [state |-> "untouched", data |-> <<>>]

Init ==
    /\ pc = "start"
    /\ file \in InputFiles
    /\ writable \in BOOLEAN
    /\ contents = Unset
    /\ resume = Unset
    /\ doc = Unset
    /\ out = Untouched
    /\ error = "none"
    /\ call = Unset
    /\ ret = Unset

\* with open(path, "r") as fp: contents = load(fp.read(), Loader)
Parse ==
    /\ pc = "start" /\ error = "none"
    /\ IF ~file.exists
       THEN error' = "FileNotFoundError" /\ UNCHANGED <<pc, contents>>
       ELSE IF ~file.parses
       THEN error' = "YAMLError" /\ UNCHANGED <<pc, contents>>
       ELSE contents' = file.contents /\ pc' = "parsed" /\ UNCHANGED error
    /\ UNCHANGED <<file, writable, resume, doc, out, call, ret>>

\* my_resume = Resume.model_validate(contents)
Validate_step ==
    /\ pc = "parsed" /\ error = "none"
    /\ LET r == validate_Resume(contents)
       IN  IF r.errs # {}
           THEN error' = "ValidationError" /\ UNCHANGED <<pc, resume>>
           ELSE resume' = r.v /\ pc' = "validated" /\ UNCHANGED error
    /\ UNCHANGED <<file, writable, contents, doc, out, call, ret>>

\* Assemble, were out.tex opened before generate_doc is called
Assemble_into_open_file ==
    /\ pc = "validated" /\ error = "none"
    /\ out' = [state |-> "opened", data |-> <<>>]
    /\ LET r == generate_doc(resume)
       IN  IF r.raised
           THEN error' = r.exc /\ UNCHANGED <<pc, doc>>
           ELSE doc' = r.v /\ pc' = "assembled" /\ UNCHANGED error
    /\ UNCHANGED <<file, writable, contents, resume, call, ret>>

\* generated_doc = generate_doc(my_resume)
Assemble ==
    /\ pc = "validated" /\ error = "none"
    /\ LET r == generate_doc(resume)
       IN  IF r.raised
           THEN error' = r.exc /\ UNCHANGED <<pc, doc>>
           ELSE doc' = r.v /\ pc' = "assembled" /\ UNCHANGED error
    /\ UNCHANGED <<file, writable, contents, resume, out, call, ret>>

\* open("out.tex", "w")
OpenOut ==
    /\ pc = "assembled" /\ error = "none"
    /\ IF writable
       THEN out' = [state |-> "opened", data |-> <<>>] /\ pc' = "opened" /\ UNCHANGED error
       ELSE error' = "PermissionError" /\ UNCHANGED <<pc, out>>
    /\ UNCHANGED <<file, writable, contents, resume, doc, call, ret>>

\* generated_doc.dump(fp)
Dump ==
    /\ pc = "opened" /\ error = "none"
    /\ out' = [state |-> "written", data |-> <<doc>>]
    /\ pc' = "written"
    /\ UNCHANGED <<file, writable, contents, resume, doc, error, call, ret>>

Next == Parse \/ Validate_step \/ Assemble \/ OpenOut \/ Dump

Spec == Init /\ [][Next]_vars

(***************************************************************************)
(* The helpers called on their own, on inputs drawn from bounded sets.     *)
(***************************************************************************)
Dates ==
    [year : FirstYear..(FirstYear + MaxYears), month : {1, 6, 10, 12}, day : {1, 28}]

TimeRangeCalls ==
    [fn : {"format_time_range"}, start : Dates, end : {None} \cup {Some(d) : d \in Dates},
     is_instant : BOOLEAN]

NetworkInputs ==
    {"github", "GitHub", "GITHUB", "linkedin", "LinkedIn", "phone", "Mail", "HOME", "web",
     "Web", "mastodon", "Mastodon", "twitter", "", " ", " github", "GitHub ",
     "\tLINKEDIN\n", "git hub", "githubx", "in", "resources/github.png"}

ProfileCalls ==
    {[fn |-> "format_profile", profile |-> None]}
    \cup {[fn |-> "format_profile",
           profile |-> Some([network |-> n, username |-> u, url |-> "https://example.org"])] :
             n \in NetworkInputs, u \in {"jdoe", "j.doe"}}

SampleLocation ==
    [address |-> None, postal_code |-> None, city |-> "Laramie", country_code |-> "US",
     region |-> "WY"]

Highlights(n) == [i \in 1..n |-> "Highlight" \o ToString(i)]

EntryGenerators ==
    {[EntryGenerator("Engineer", [year |-> FirstYear, month |-> 6, day |-> 1]) EXCEPT
         !.context = context, !.location = location, !.end_date = end_date, !.link = link,
         !.summary = summary, !.highlights = highlights, !.is_instant = is_instant] :
        context \in {None, Some("Acme")},
        location \in {None, Some(SampleLocation)},
        end_date \in {None, Some([year |-> FirstYear + 1, month |-> 1, day |-> 1])},
        link \in {None, Some(Link("(link)", "https://example.org"))},
        summary \in {None, Some("Did things")},
        highlights \in {None} \cup {Some(Highlights(n)) : n \in 0..MaxHighlights},
        is_instant \in BOOLEAN}

GenerateCalls == {[fn |-> "generate", self |-> e] : e \in EntryGenerators}

InitHelpers ==
    /\ pc = "idle"
    /\ file = Unset
    /\ writable = FALSE
    /\ contents = Unset
    /\ resume = Unset
    /\ doc = Unset
    /\ out = Untouched
    /\ error = "none"
    /\ call \in TimeRangeCalls \cup ProfileCalls \cup GenerateCalls
    /\ ret = Unset

Call_format_time_range ==
    /\ pc = "idle" /\ ret = Unset /\ call.fn = "format_time_range"
    /\ ret' = Returned(format_time_range(call.start, call.end, call.is_instant))
    /\ UNCHANGED <<pc, file, writable, contents, resume, doc, out, error, call>>

Call_format_profile ==
    /\ pc = "idle" /\ ret = Unset /\ call.fn = "format_profile"
    /\ ret' = format_profile(call.profile)
    /\ UNCHANGED <<pc, file, writable, contents, resume, doc, out, error, call>>

Call_generate ==
    /\ pc = "idle" /\ ret = Unset /\ call.fn = "generate"
    /\ ret' = Returned(EntryGenerator_generate(call.self))
    /\ UNCHANGED <<pc, file, writable, contents, resume, doc, out, error, call>>

NextHelpers == Call_format_time_range \/ Call_format_profile \/ Call_generate

SpecHelpers == InitHelpers /\ [][NextHelpers]_vars

(***************************************************************************)
(* What the properties read off a document.                                *)
(***************************************************************************)
Assembled == doc # Unset

SectionsOf(d) == SelectSeq(d.data, LAMBDA o : o.kind = "Section")

SectionNames(d) == [i \in 1..Len(SectionsOf(d)) |-> SectionsOf(d)[i].args[1]]

\* the text under a section's header rule
HasHeader(section) ==
    /\ Len(section.data) >= 5
    /\ section.data[2].kind = "LargeText"
    /\ section.data[2].data[1].args[1] = "textbf"
    /\ section.data[4].args = <<"hrule">>

TitleOf(section) == section.data[2].data[1].args[2]

IsFill(o) == o.kind = "Command" /\ o.args = <<"hfill">>

\* one fill per entry; one line break per skill line
EntryCount(section) ==
    Len(SelectSeq(section.data, LAMBDA o : IsFill(o) \/ o.kind = "NewLine"))

\* the section of the document with this name (the first, if several)
SectionNamed(d, name) ==
    SectionsOf(d)[CHOOSE i \in 1..Len(SectionsOf(d)) :
                     /\ SectionsOf(d)[i].args[1] = name
                     /\ \A j \in 1..(i - 1) : SectionsOf(d)[j].args[1] # name]

HasSection(d, name) == \E i \in 1..Len(SectionsOf(d)) : SectionsOf(d)[i].args[1] = name

\* every string of a tree of objects
RECURSIVE StringsOf(_)
StringsOf(objs) ==
    IF Len(objs) = 0 THEN {}
    ELSE Range(Head(objs).args) \cup Range(Head(objs).opts)
         \cup StringsOf(Head(objs).data) \cup StringsOf(Tail(objs))

Appears(d, text) == \E t \in StringsOf(d.preamble) \cup StringsOf(d.data) : Contains(t, text)

\* s is d as MM/YYYY
ShowsMonthYear(s, d) ==
    /\ Len(s) = 7
    /\ AllDigits(SubSeq(s, 1, 2)) /\ ParseNat(SubSeq(s, 1, 2)) = d.month
    /\ CharAt(s, 3) = "/"
    /\ AllDigits(SubSeq(s, 4, 7)) /\ ParseNat(SubSeq(s, 4, 7)) = d.year

AppearsAsMonthYear(d, date) ==
    \E t \in StringsOf(d.data) :
        \E i \in 1..Len(t) : i + 6 <= Len(t) /\ ShowsMonthYear(SubSeq(t, i, i + 6), date)

(***************************************************************************)
(* C1.                                                                     *)
(***************************************************************************)
ExpectedTitle(certificates, awards) ==
    IF Present(certificates) /\ ~Present(awards) THEN "Certifications"
    ELSE IF Present(awards) /\ ~Present(certificates) THEN "Awards"
    ELSE "Certifications & Awards"

\* C1: in the assembled document, the title of the Certifications & Awards section is
\* "Certifications" when only certificates is present, "Awards" when only awards is
\* present, and "Certifications & Awards" when both are.
C1_TitleFollowsPresentLists ==
    (Assembled /\ HasSection(doc, "Certifications & Awards"))
        => TitleOf(SectionNamed(doc, "Certifications & Awards"))
               = ExpectedTitle(resume.certificates, resume.awards)

(***************************************************************************)
(* C2.                                                                     *)
(***************************************************************************)
\* C2: once a Resume has passed validation, assembling its document never ends in the
\* RuntimeError that format_location raises for an absent location.
C2_AssemblyNeverRaises ==
    (resume # Unset) => error # "RuntimeError"

(***************************************************************************)
(* C3.                                                                     *)
(***************************************************************************)
OptionalBasicsKeys == {"label", "url", "summary", "location", "profiles"}

\* a file that gives basics its required keys, each a string, and nothing else
OnlyRequiredGiven(c) ==
    /\ c.tag = "map"
    /\ \A k \in DOMAIN c.fields : k # "basics" => c.fields[k] = Missing
    /\ c.fields.basics.tag = "map"
    /\ \A k \in {"name", "email", "phone"} : c.fields.basics.fields[k].tag = "str"
    /\ \A k \in OptionalBasicsKeys : c.fields.basics.fields[k] = Missing

\* C3: a file whose basics holds only name, email and phone is accepted, and each
\* optional field it omits is the absent marker of the Resume.
C3_OmittedOptionalIsAbsent ==
    (contents # Unset /\ OnlyRequiredGiven(contents))
        => /\ error # "ValidationError"
           /\ (resume # Unset) => \A k \in OptionalBasicsKeys : resume.basics[k] = None

(***************************************************************************)
(* C4.                                                                     *)
(***************************************************************************)
SectionOrder == <<"Education", "Experience", "Projects", "Certifications & Awards", "Skills">>

\* whether the Resume holds the list (one of the lists) a section renders
ListPresent(r, name) ==
    CASE name = "Education" -> Present(r.education)
      [] name = "Experience" -> Present(r.work)
      [] name = "Projects" -> Present(r.projects)
      [] name = "Certifications & Awards" -> Present(r.certificates) \/ Present(r.awards)
      [] name = "Skills" -> Present(r.skills)

ListLength(r, name) ==
    CASE name = "Education" -> LenOf(r.education)
      [] name = "Experience" -> LenOf(r.work)
      [] name = "Projects" -> LenOf(r.projects)
      [] name = "Certifications & Awards" -> LenOf(r.certificates) + LenOf(r.awards)
      [] name = "Skills" -> LenOf(r.skills)

\* C4: the sections of the assembled document are exactly the sections whose list is
\* present, in the order Education, Experience, Projects, Certifications & Awards,
\* Skills; each has its header and as many entries as its list has items (none for an
\* empty list).
C4_SectionsFollowPresence ==
    Assembled =>
        /\ SectionNames(doc) = SelectSeq(SectionOrder, LAMBDA name : ListPresent(resume, name))
        /\ \A i \in 1..Len(SectionsOf(doc)) :
              /\ HasHeader(SectionsOf(doc)[i])
              /\ EntryCount(SectionsOf(doc)[i]) = ListLength(resume, SectionsOf(doc)[i].args[1])

\* C4: a document assembled from a Resume with an empty work list, no education list
\* and a skills list with items.
C4_Witness ==
    /\ Assembled
    /\ resume.work = Some(<<>>)
    /\ resume.education = None
    /\ LenOf(resume.skills) > 0

(***************************************************************************)
(* C5.                                                                     *)
(***************************************************************************)
AllAppear(d, texts) == \A i \in 1..Len(texts) : Appears(d, texts[i])

\* C5: every required field of basics and of every item of a rendered list appears in
\* the assembled document, as it is or (a date) as MM/YYYY.
C5_RequiredFieldsAppear ==
    Assembled =>
        /\ Appears(doc, resume.basics.name)
        /\ Appears(doc, resume.basics.email)
        /\ Appears(doc, resume.basics.phone)
        /\ \A i \in 1..LenOf(resume.education) :
              LET e == resume.education.v[i]
              IN  /\ Appears(doc, e.institution) /\ Appears(doc, e.area)
                  /\ Appears(doc, e.study_type) /\ AllAppear(doc, e.courses)
                  /\ AppearsAsMonthYear(doc, e.start_date)
        /\ \A i \in 1..LenOf(resume.work) :
              LET w == resume.work.v[i]
              IN  /\ Appears(doc, w.name) /\ Appears(doc, w.position)
                  /\ AllAppear(doc, w.highlights)
                  /\ AppearsAsMonthYear(doc, w.start_date)
        /\ \A i \in 1..LenOf(resume.projects) :
              LET p == resume.projects.v[i]
              IN  Appears(doc, p.name) /\ AppearsAsMonthYear(doc, p.start_date)
        /\ \A i \in 1..LenOf(resume.certificates) :
              LET c == resume.certificates.v[i]
              IN  /\ Appears(doc, c.name) /\ Appears(doc, c.issuer)
                  /\ Appears(doc, c.summary) /\ AppearsAsMonthYear(doc, c.date)
        /\ \A i \in 1..LenOf(resume.awards) :
              LET a == resume.awards.v[i]
              IN  /\ Appears(doc, a.name) /\ Appears(doc, a.awarder)
                  /\ Appears(doc, a.summary) /\ AppearsAsMonthYear(doc, a.date)
        /\ \A i \in 1..LenOf(resume.skills) :
              LET k == resume.skills.v[i]
              IN  Appears(doc, k.name) /\ AllAppear(doc, k.keywords)

(***************************************************************************)
(* C6.                                                                     *)
(***************************************************************************)
\* C6: out.tex is touched only after parsing, validation and assembly have all
\* succeeded; a run that failed in one of them has written nothing; what is written is
\* the assembled document; and a failure ends the run.
C6_WriteOnlyAfterAssembly ==
    /\ (out # Untouched) =>
          (contents # Unset /\ resume # Unset /\ doc # Unset /\ pc \in {"opened", "written"})
    /\ (error \in {"FileNotFoundError", "YAMLError", "ValidationError", "RuntimeError",
                   "KeyError"}) => out = Untouched
    /\ (out.state = "written") => out.data = <<doc>>
    /\ (error # "none") => ~ENABLED Next

\* C6: a run that validation ended, with out.tex untouched.
C6_Witness ==
    /\ pc = "parsed"
    /\ error = "ValidationError"
    /\ out = Untouched

(***************************************************************************)
(* C7.                                                                     *)
(***************************************************************************)
Later(d1, d2) ==
    \/ d1.year > d2.year
    \/ d1.year = d2.year /\ d1.month > d2.month
    \/ d1.year = d2.year /\ d1.month = d2.month /\ d1.day > d2.day

BothLists(r) == r.certificates.v \o r.awards.v

AwardsSection == SectionNamed(doc, "Certifications & Awards")

EntryTitles(section) ==
    LET titles == SelectSeq(section.data, LAMBDA o : o.kind = "bold")
    IN  [i \in 1..Len(titles) |-> titles[i].args[1]]

EntryTimes(section) ==
    LET times == SelectSeq(section.data, LAMBDA o : o.kind = "italic")
    IN  [i \in 1..Len(times) |-> times[i].args[1]]

\* C7: with both lists present, the entries of the section are the certificates in list
\* order followed by the awards in list order, and the time of each entry is the single
\* date MM/YYYY of its item.
C7_CertificatesThenAwards ==
    (Assembled /\ Present(resume.certificates) /\ Present(resume.awards)) =>
        /\ EntryTitles(AwardsSection) = [i \in 1..Len(BothLists(resume)) |-> BothLists(resume)[i].name]
        /\ Len(EntryTimes(AwardsSection)) = Len(BothLists(resume))
        /\ \A i \in 1..Len(BothLists(resume)) :
              ShowsMonthYear(EntryTimes(AwardsSection)[i], BothLists(resume)[i].date)

\* C7: a document assembled from two certificates and two awards, an award dated
\* before a certificate and a certificate dated before the one it follows.
C7_Witness ==
    /\ Assembled
    /\ LenOf(resume.certificates) = 2 /\ LenOf(resume.awards) = 2
    /\ Later(resume.certificates.v[1].date, resume.certificates.v[2].date)
    /\ \E i, j \in 1..2 : Later(resume.certificates.v[i].date, resume.awards.v[j].date)

(***************************************************************************)
(* C8.                                                                     *)
(***************************************************************************)
\* the capital of a letter, any other character as it is
Capital(c) ==
    IF \E i \in 1..26 : CharAt(LOWER, i) = c
    THEN CharAt(UPPER, CHOOSE i \in 1..26 : CharAt(LOWER, i) = c)
    ELSE c

SameIgnoringCase(a, b) ==
    /\ Len(a) = Len(b)
    /\ \A i \in 1..Len(a) : Capital(CharAt(a, i)) = Capital(CharAt(b, i))

\* network names key, whatever its case and the whitespace around it
Names(network, key) ==
    \E i \in 1..(Len(network) + 1) :
        /\ i + Len(key) - 1 <= Len(network)
        /\ SameIgnoringCase(SubSeq(network, i, i + Len(key) - 1), key)
        /\ \A j \in 1..Len(network) :
              (j < i \/ j > i + Len(key) - 1) => IsSpace(CharAt(network, j))

IconPrefix(key) ==
    "\\includegraphics[height=\\fontcharht\\font\\B]{" \o RESOURCE_MAP[key] \o "} "

\* the link shows the icon of key, then the link text network/username
ShowsIcon(command, key, profile) ==
    /\ command.args[1] = "href"
    /\ command.args[2] = profile.url
    /\ command.args[3] = IconPrefix(key) \o profile.network \o "/" \o profile.username

ProfileFormatted == call # Unset /\ call.fn = "format_profile" /\ ret # Unset

\* C8: format_profile of a present profile raises nothing; a network that names an icon
\* key, in any case (and with any whitespace around it), gets that key's icon; any other
\* network gets the web icon.
C8_ProfileIconResolves ==
    (ProfileFormatted /\ Present(call.profile)) =>
        /\ ~ret.raised
        /\ \A key \in RESOURCE_KEYS :
              Names(call.profile.v.network, key) => ShowsIcon(ret.v, key, call.profile.v)
        /\ (\A key \in RESOURCE_KEYS : ~Names(call.profile.v.network, key))
              => ShowsIcon(ret.v, "web", call.profile.v)

\* C8: the profile of an unknown network, formatted.
C8_Witness ==
    /\ ProfileFormatted
    /\ Present(call.profile)
    /\ call.profile.v.network = "mastodon"
    /\ ~ret.raised

(***************************************************************************)
(* C9.                                                                     *)
(***************************************************************************)
TimeRangeFormatted == call # Unset /\ call.fn = "format_time_range" /\ ret # Unset

\* C9: format_time_range gives start as MM/YYYY when is_instant (whatever end is);
\* otherwise start as MM/YYYY, " - ", and "present" when end is absent or end as MM/YYYY
\* when it is present, whether or not start is after end.
C9_TimeRangeFormat ==
    TimeRangeFormatted =>
        IF call.is_instant THEN ShowsMonthYear(ret.v, call.start)
        ELSE IF call.end = None
             THEN /\ Len(ret.v) = 17
                  /\ ShowsMonthYear(SubSeq(ret.v, 1, 7), call.start)
                  /\ SubSeq(ret.v, 8, 17) = " - present"
             ELSE /\ Len(ret.v) = 17
                  /\ ShowsMonthYear(SubSeq(ret.v, 1, 7), call.start)
                  /\ SubSeq(ret.v, 8, 10) = " - "
                  /\ ShowsMonthYear(SubSeq(ret.v, 11, 17), call.end.v)

\* C9: a range whose start is after its end, formatted.
C9_Witness ==
    /\ TimeRangeFormatted
    /\ ~call.is_instant
    /\ Present(call.end)
    /\ Later(call.start, call.end.v)

(***************************************************************************)
(* C10.                                                                    *)
(***************************************************************************)
Generated == call # Unset /\ call.fn = "generate" /\ ret # Unset

KindsOf(objs) == [i \in 1..Len(objs) |-> objs[i].kind]

\* the kinds of the objects of an entry, as the rendering algorithm orders them
ExpectedKinds(self) ==
    <<"bold">>
    \o (IF Present(self.context) THEN <<"str", "italic">> ELSE <<>>)
    \o (IF Present(self.link) THEN <<"HorizontalSpace", "TextColor">> ELSE <<>>)
    \o <<"Command">>
    \o (IF Present(self.location) THEN <<"bold", "HorizontalSpace">> ELSE <<>>)
    \o <<"italic">>
    \o (IF Present(self.summary) \/ Present(self.highlights) THEN <<"AdjustWidth">> ELSE <<>>)

\* where the fill is
FillAt(self) ==
    2 + (IF Present(self.context) THEN 2 ELSE 0) + (IF Present(self.link) THEN 2 ELSE 0)

\* the indented block: the summary, then one bullet per highlight, in order
DetailsInOrder(block, self) ==
    /\ KindsOf(block.data) = (IF Present(self.summary) THEN <<"str">> ELSE <<>>)
                             \o (IF Present(self.highlights) THEN <<"Itemize">> ELSE <<>>)
    /\ Present(self.summary) => block.data[1].args = <<self.summary.v>>
    /\ Present(self.highlights) =>
          LET items == block.data[Len(block.data)].data
          IN  /\ KindsOf(items) = [i \in 1..Len(self.highlights.v) |-> "item"]
              /\ \A i \in 1..Len(items) : items[i].args = <<self.highlights.v[i]>>

\* C10: generate appends the bold title; the context, if set; the link, if set; the
\* fill; the location, if set; the italic time range; and, iff summary or highlights is
\* set, an indented block with the summary first (if set) and then one bullet per
\* highlight in order (if set).
C10_BlocksInFixedOrder ==
    Generated =>
        LET self == call.self
            objs == ret.v
        IN  /\ KindsOf(objs) = ExpectedKinds(self)
            /\ objs[1].args = <<self.title>>
            /\ Present(self.context) => objs[3].args = <<self.context.v>>
            /\ Present(self.link) =>
                  objs[FillAt(self) - 1].data[1].args
                      = <<"href", self.link.v.ref, self.link.v.text>>
            /\ IsFill(objs[FillAt(self)])
            /\ Present(self.location) =>
                  objs[FillAt(self) + 1].args
                      = <<self.location.v.city \o ", " \o self.location.v.region>>
            /\ (Present(self.summary) \/ Present(self.highlights)) =>
                  DetailsInOrder(objs[Len(objs)], self)

\* C10: an entry with context, link, location, summary and two highlights, generated.
C10_Witness ==
    /\ Generated
    /\ Present(call.self.context) /\ Present(call.self.link) /\ Present(call.self.location)
    /\ Present(call.self.summary) /\ LenOf(call.self.highlights) = 2

====
